---- MODULE Spec2Model ----
\* Model of adsws/api/discoverer/utils.py: discover(app) and the two
\* bootstrap functions that populate the gateway's Flask url_map,
\* view_functions and config from the configured WEBSERVICES.
\*
\* Paths are sequences of one-character strings, so that the slicing and
\* os.path.join of the source are computed and not assumed.
\* A service URI is a pair <<scheme, rest>>; a local module has scheme "".
EXTENDS Integers, Sequences, FiniteSets, TLC

VARIABLES
    services,        \* app.config['WEBSERVICES']: the set of configured service URIs
    config,          \* app.config (the other keys)
    url_map,         \* app.url_map: sequence of Rules in insertion order
    view_functions,  \* app.view_functions: endpoint -> view
    log,             \* app.logger output
    pc,              \* position of discover: "init", "next", "remote", "local", "done"
    order,           \* iteration order of webservices.iteritems()
    idx,             \* number of services whose loop iteration has started
    todo,            \* manifest entries / local rules still to be iterated for the current service
    mi,              \* index of the next method of Head(todo) in the remote method loop
    outcome,         \* per position of order: "ok", "skipped" or "raised"
    pre,             \* snapshot of url_map, view_functions and config taken when the current service started
    nextid,          \* identity given to the next function object created by a decorator
    requests,        \* the URLs requests.get was called with, each with the service it was called for
    iter,            \* per service already enumerated: the order in which its manifest or url_map iterates
    runs,            \* number of calls of discover(app) started on this app
    first,           \* url_map and view_functions as the first call of discover left them
    cs_endpoints,    \* ConsulService.endpoints: [none |-> TRUE] is None, otherwise the list
    cs_calls,        \* number of calls of ConsulService.resolve
    cs_last,         \* the DNS response and the result of the latest call of resolve
    cs_before        \* ConsulService.endpoints as it was when the latest call of resolve started

\* the variables of discover(app)
dvars == <<services, config, url_map, view_functions, log, pc, order, idx, todo, mi, outcome, pre, nextid, requests, iter>>

\* the variables of repeated calls of discover
rvars == <<runs, first>>

\* the variables of a ConsulService object
cvars == <<cs_endpoints, cs_calls, cs_last, cs_before>>

vars == <<dvars, rvars, cvars>>

\* ---------------------------------------------------------------- bounds
MaxBackends == 2

\* ---------------------------------------------------------------- paths
S1 == <<"/", "s">>
T1 == <<"/", "t">>

\* resource[1:] if resource.startswith('/')
StripSlash(resource) ==
    IF Len(resource) > 0 /\ resource[1] = "/" THEN Tail(resource) ELSE resource

\* os.path.join(a, p) for two components (posixpath)
PathJoin(a, p) ==
    IF Len(p) > 0 /\ p[1] = "/" THEN p
    ELSE IF Len(a) = 0 \/ a[Len(a)] = "/" THEN a \o p
    ELSE a \o <<"/">> \o p

\* route of a manifest resource under deploy_path
RemoteRoute(deploy_path, resource) == PathJoin(deploy_path, StripSlash(resource))

\* route of a local rule under deploy_path: rule.rule[1:] drops the first character
LocalRoute(deploy_path, rule) == PathJoin(deploy_path, Tail(rule))

\* ---------------------------------------------------------------- inputs
DefaultLimit == 1000
DefaultPer == 86400

EmptyConfig == [k \in {} |-> ""]

\* one entry of a remote manifest: has = the keys present in its properties
Entry(path, has, methods, scopes, rate_limit) ==
    [path |-> path, has |-> has, methods |-> methods, scopes |-> scopes, rate_limit |-> rate_limit]

\* one rule of a local app's url_map together with the metadata of its view:
\* has = the attributes present on attr_base
LRule(rule, endpoint, methods, has, scopes, rate_limit) ==
    [rule |-> rule, endpoint |-> endpoint, methods |-> methods, has |-> has,
     scopes |-> scopes, rate_limit |-> rate_limit]

Remote(uri, deploy_path, resp, manifest) ==
    [uri |-> uri, deploy_path |-> deploy_path, resp |-> resp, manifest |-> manifest,
     importok |-> FALSE, lconfig |-> EmptyConfig, rules |-> {}]

Local(uri, deploy_path, importok, lconfig, rules) ==
    [uri |-> uri, deploy_path |-> deploy_path, resp |-> "none", manifest |-> {},
     importok |-> importok, lconfig |-> lconfig, rules |-> rules]

\* The services the gateway may be configured with, each with the answers of
\* its environment: resp is the outcome of the manifest GET ("ok", "neterr":
\* ConnectionError/Timeout, "badjson": r.json() raises), importok the outcome
\* of import_module/create_app.
Catalog ==
    { Remote(<<"http://", "w">>, S1, "ok",
        { Entry(<<"/", "w">>, {"methods", "scopes", "rate_limit"}, <<"GET", "POST">>, {"read"}, <<10, 60>>) }),
      Remote(<<"http://", "g">>, S1, "ok",
        { Entry(<<"/", "x">>, {"methods"}, <<"GET">>, {}, <<0, 0>>) }),
      Remote(<<"https://", "p">>, S1, "ok",
        { Entry(<<"/", "x">>, {"methods", "scopes", "rate_limit"}, <<"POST">>, {"write"}, <<5, 60>>) }),
      Remote(<<"http://", "m">>, S1, "ok",
        { Entry(<<"/", "a">>, {"methods", "scopes"}, <<"OPTIONS", "GET", "TRACE", "PUT">>, {"read"}, <<0, 0>>),
          Entry(<<"b">>, {"scopes"}, <<>>, {"read"}, <<0, 0>>) }),
      Remote(<<"http://", "al">>, S1, "ok",
        { Entry(<<"/", "a">>, {"methods", "scopes", "rate_limit"}, <<"GET">>, {"read"}, <<10, 60>>),
          Entry(<<"a">>, {"methods", "scopes", "rate_limit"}, <<"POST">>, {"write"}, <<2, 60>>),
          Entry(<<"/", "e">>, {"methods", "scopes", "rate_limit"}, <<"OPTIONS">>, {}, <<2, 60>>) }),
      Remote(<<"http://", "u">>, T1, "ok",
        { Entry(<<"/", "u">>, {"methods"}, <<"GET", "TRACE", "PUT">>, {}, <<0, 0>>),
          Entry(<<"/", "v">>, {"methods"}, <<"PATCH", "DELETE">>, {}, <<0, 0>>) }),
      Remote(<<"http://", "v">>, S1, "ok",
        { Entry(<<"/", "/", "v">>, {"methods"}, <<"GET">>, {}, <<0, 0>>) }),
      Remote(<<"http://", "d">>, S1, "neterr", {}),
      Remote(<<"https://", "j">>, T1, "badjson", {}),
      Remote(<<"consul://", "c">>, T1, "ok",
        { Entry(<<"/", "c">>, {"methods"}, <<"GET">>, {}, <<0, 0>>) }),
      Local(<<"", "mod.ok">>, T1, TRUE,
        [K1 |-> "mod.ok", K2 |-> "ok2"],
        { LRule(<<"/", "x">>, <<"x">>, {"GET", "HEAD", "OPTIONS"}, {"rate_limit", "scopes"}, {"user"}, <<3, 30>>),
          LRule(<<"/", "y">>, <<"y">>, {"POST", "OPTIONS"}, {}, {}, <<0, 0>>) }),
      Local(<<"", "mod.dup">>, S1, TRUE,
        [K2 |-> "dup2", API_PROXYVIEW_HEADERS |-> "no-cache"],
        { LRule(<<"/", "x">>, <<"g", "x">>, {"GET", "HEAD", "OPTIONS"}, {"scopes"}, {"user"}, <<0, 0>>),
          LRule(<<"/", "x">>, <<"p", "x">>, {"POST", "OPTIONS"}, {"scopes"}, {"user"}, <<0, 0>>) }),
      Local(<<"", "mod.bad">>, T1, FALSE, EmptyConfig, {}) }

Backend(uri) == CHOOSE b \in Catalog : b.uri = uri

\* the gateway's own configuration before discover
GatewayConfigs ==
    { EmptyConfig,
      [K1 |-> "gateway"],
      [K1 |-> "gateway", API_PROXYVIEW_HEADERS |-> "max-age=60"] }

\* all orders in which a finite set can be iterated
Perms(S) ==
    { s \in [1..Cardinality(S) -> S] : \A i, j \in 1..Cardinality(S) : i # j => s[i] # s[j] }

\* ---------------------------------------------------------------- helpers
IsRemote(uri) == uri[1] \in {"http://", "https://", "consul://"}

\* urljoin(service_uri, app.config.get('WEBSERVICES_PUBLISH_ENDPOINT', '/')):
\* for a scheme urlparse does not know as relative (consul) the result is the
\* bare second argument, which has no scheme
Urljoin(uri) == IF uri[1] \in {"http://", "https://"} THEN uri ELSE <<"", "/">>

\* mutation: ConnectionError and Timeout are not caught around requests.get
GetOutcome_NoExcept(uri) ==
    IF Urljoin(uri)[1] = "" THEN "raise"
    ELSE IF Backend(uri).resp \in {"badjson", "neterr"} THEN "raise"
    ELSE Backend(uri).resp

\* outcome of requests.get(url, timeout=5) followed by r.json():
\* "ok", "neterr" (ConnectionError or Timeout), or "raise" (any other exception)
GetOutcome(uri) ==
    IF Urljoin(uri)[1] = "" THEN "raise"             \* requests MissingSchema
    ELSE IF Backend(uri).resp = "badjson" THEN "raise"
    ELSE Backend(uri).resp

\* ProxyView.methods: the HTTP methods ProxyView implements
ProxyViewMethods == {"GET", "POST", "PUT", "DELETE"}

LogEntry(level, uri, text, method) ==
    [level |-> level, service |-> uri, text |-> text, method |-> method]

\* mutation: an unsupported method is skipped without a word
Warning_Silent(lg, uri, method) == lg

\* app.logger.warning("Could not create a ProxyView for method {meth} for {ep}")
Warning(lg, uri, method) ==
    Append(lg, LogEntry("warning", uri, "Could not create a ProxyView", method))

EmptyViews == [e \in {} |-> 0]

Snapshot(um, vf, cfg) == [url_map |-> um, view_functions |-> vf, config |-> cfg]

\* app.config.get('API_PROXYVIEW_HEADERS') is truthy
HeadersConfigured(cfg) ==
    "API_PROXYVIEW_HEADERS" \in DOMAIN cfg /\ cfg["API_PROXYVIEW_HEADERS"] # ""

\* ---------------------------------------------------------------- views
\* A view is the undecorated callable (kind, uri, name) together with the
\* decorators applied to it, innermost first, and the identity of the
\* resulting function object (0: the undecorated callable itself).
RawView(kind, uri, name) ==
    [id |-> 0, kind |-> kind, uri |-> uri, name |-> name, stages |-> <<>>,
     limit |-> 0, per |-> 0, scopes |-> {}, hdr |-> ""]

Ratelimit(view, limit, per) ==
    [view EXCEPT !.stages = Append(@, "ratelimit"), !.limit = limit, !.per = per]

RequireOauth(view, scopes) ==
    [view EXCEPT !.stages = Append(@, "oauth"), !.scopes = scopes]

Headers(view, value) ==
    [view EXCEPT !.stages = Append(@, "headers"), !.hdr = value]

\* every decorator returns a new function object
Identify(view, n) == IF view.stages = <<>> THEN view ELSE [view EXCEPT !.id = n]

\* mutation: another default period
RemoteRateLimit_OtherDefault(e) ==
    IF "rate_limit" \in e.has THEN e.rate_limit ELSE <<DefaultLimit, 3600>>

\* properties.setdefault('rate_limit', [1000, 86400])
RemoteRateLimit(e) ==
    IF "rate_limit" \in e.has THEN e.rate_limit ELSE <<DefaultLimit, DefaultPer>>

\* mutation: the advertised scopes are not passed to require_oauth
RemoteScopes_Dropped(e) == {}

\* properties.setdefault('scopes', [])
RemoteScopes(e) == IF "scopes" \in e.has THEN e.scopes ELSE {}

\* mutation: the proxy view is not wrapped by require_oauth
RemoteView_NoOauth(uri, e, cfg, n) ==
    LET raw == RawView("proxy", uri, StripSlash(e.path))
        v1  == Ratelimit(raw, RemoteRateLimit(e)[1], RemoteRateLimit(e)[2])
        v3  == IF HeadersConfigured(cfg) THEN Headers(v1, cfg["API_PROXYVIEW_HEADERS"]) ELSE v1
    IN  Identify(v3, n)

\* the decorated proxy view of one method of one manifest entry
RemoteView(uri, e, cfg, n) ==
    LET raw == RawView("proxy", uri, StripSlash(e.path))
        v1  == Ratelimit(raw, RemoteRateLimit(e)[1], RemoteRateLimit(e)[2])
        v2  == RequireOauth(v1, RemoteScopes(e))
        v3  == IF HeadersConfigured(cfg) THEN Headers(v2, cfg["API_PROXYVIEW_HEADERS"]) ELSE v2
    IN  Identify(v3, n)

\* mutation: require_oauth is applied before ratelimit
LocalView_OauthInnermost(uri, r, cfg, n) ==
    LET raw == RawView("local", uri, r.endpoint)
        v1  == IF "scopes" \in r.has THEN RequireOauth(raw, r.scopes) ELSE raw
        v2  == IF "rate_limit" \in r.has THEN Ratelimit(v1, r.rate_limit[1], r.rate_limit[2]) ELSE v1
        v3  == IF HeadersConfigured(cfg) THEN Headers(v2, cfg["API_PROXYVIEW_HEADERS"]) ELSE v2
    IN  Identify(v3, n)

\* the order in which the decorators of a view see a request: the decorator
\* applied last is the outermost and runs first
RECURSIVE Checks(_)
Checks(stages) ==
    IF stages = <<>> THEN <<>> ELSE <<stages[Len(stages)]>> \o Checks(SubSeq(stages, 1, Len(stages) - 1))

\* what a request whose token grants `granted` passes through, in order: a
\* require_oauth whose scopes are not all granted rejects the request and
\* nothing inside it runs; the undecorated callable comes last
RECURSIVE Visit(_, _, _)
Visit(checks, scopes, granted) ==
    IF checks = <<>> THEN <<"handler">>
    ELSE IF Head(checks) = "oauth" /\ ~(scopes \subseteq granted) THEN <<"oauth">>
    ELSE <<Head(checks)>> \o Visit(Tail(checks), scopes, granted)

Reached(view, granted) == Visit(Checks(view.stages), view.scopes, granted)

\* the view of one local rule, decorated according to the attributes it has
LocalView(uri, r, cfg, n) ==
    LET raw == RawView("local", uri, r.endpoint)
        v1  == IF "rate_limit" \in r.has THEN Ratelimit(raw, r.rate_limit[1], r.rate_limit[2]) ELSE raw
        v2  == IF "scopes" \in r.has THEN RequireOauth(v1, r.scopes) ELSE v1
        v3  == IF HeadersConfigured(cfg) THEN Headers(v2, cfg["API_PROXYVIEW_HEADERS"]) ELSE v2
    IN  Identify(v3, n)

\* mutation: OPTIONS is not removed from rule.methods
LocalMethods_KeepOptions(r) == r.methods

\* the methods passed to add_url_rule for a local rule
LocalMethods(r) == r.methods \ {"OPTIONS"}

\* ---------------------------------------------------------------- Flask
\* Rule.methods as built by Flask's add_url_rule and werkzeug's Rule:
\* OPTIONS is added when it was not passed, HEAD is added when GET is there
FlaskMethods(methods) ==
    methods \cup {"OPTIONS"} \cup (IF "GET" \in methods THEN {"HEAD"} ELSE {})

\* A Rule of the gateway: methods is Rule.methods; by is the service whose
\* bootstrap added the Rule and registered the set of <<method, service>>
\* the discoverer passed explicitly for it.
NewRule(route, methods, uri) ==
    [rule |-> route, endpoint |-> route, methods |-> FlaskMethods(methods),
     by |-> uri, registered |-> {<<m, uri>> : m \in methods}]

\* mutation: an endpoint already bound is bound to the new function instead
\* of raising
AddUrlRule_Overwrite(um, vf, route, view, methods, uri) ==
    [url_map |-> Append(um, NewRule(route, methods, uri)),
     view_functions |-> [e \in DOMAIN vf \cup {route} |-> IF e = route THEN view ELSE vf[e]],
     raised |-> FALSE]

\* app.add_url_rule(route, route, view, methods=methods): the Rule is added
\* to the url_map first; then an endpoint already bound to another function
\* raises AssertionError, otherwise the view is bound.
AddUrlRule(um, vf, route, view, methods, uri) ==
    LET clash == route \in DOMAIN vf /\ vf[route] # view
    IN  [url_map |-> Append(um, NewRule(route, methods, uri)),
         view_functions |-> IF clash THEN vf
                            ELSE [e \in DOMAIN vf \cup {route} |-> IF e = route THEN view ELSE vf[e]],
         raised |-> clash]

\* positions of the rules of an endpoint: url_map._rules_by_endpoint[endpoint]
RulesOf(um, endpoint) == {i \in 1..Len(um) : um[i].endpoint = endpoint}

Min(S) == CHOOSE i \in S : \A j \in S : i <= j

\* mutation: an existing route is left alone instead of being extended
RegisterRemote_NoMerge(um, vf, route, view, method, uri) ==
    IF RulesOf(um, route) # {}
    THEN [url_map |-> um, view_functions |-> vf, raised |-> FALSE]
    ELSE AddUrlRule(um, vf, route, view, {method}, uri)

\* mutation: extending an existing route also binds the newly built view
RegisterRemote_Rebind(um, vf, route, view, method, uri) ==
    IF RulesOf(um, route) # {}
    THEN LET i == Min(RulesOf(um, route))
         IN  [url_map |-> IF method \notin um[i].methods
                          THEN [um EXCEPT ![i].methods = @ \cup {method},
                                          ![i].registered = @ \cup {<<method, uri>>}]
                          ELSE um,
              view_functions |-> [e \in DOMAIN vf \cup {route} |-> IF e = route THEN view ELSE vf[e]],
              raised |-> FALSE]
    ELSE AddUrlRule(um, vf, route, view, {method}, uri)

\* lines 198-203: append the method to the first rule of the endpoint, or
\* make a new route when iter_rules raises KeyError
RegisterRemote(um, vf, route, view, method, uri) ==
    IF RulesOf(um, route) # {}
    THEN LET i == Min(RulesOf(um, route))
         IN  [url_map |-> IF method \notin um[i].methods
                          THEN [um EXCEPT ![i].methods = @ \cup {method},
                                          ![i].registered = @ \cup {<<method, uri>>}]
                          ELSE um,
              view_functions |-> vf,
              raised |-> FALSE]
    ELSE AddUrlRule(um, vf, route, view, {method}, uri)

\* mutation: the local app's values overwrite the gateway's
MergeConfig_Overwrite(cfg, lc) ==
    [k \in DOMAIN cfg \cup DOMAIN lc |-> IF k \in DOMAIN lc THEN lc[k] ELSE cfg[k]]

\* lines 87-89: keys already in app.config are kept
MergeConfig(cfg, lc) ==
    [k \in DOMAIN cfg \cup DOMAIN lc |-> IF k \in DOMAIN cfg THEN cfg[k] ELSE lc[k]]

\* ---------------------------------------------------------------- ConsulService
MaxResolves == 2

\* DNS names are sequences of labels; an absolute name ends with the root label ""
H1 == <<"h1", "consul", "">>
H2 == <<"h2", "consul", "">>
Hosts == {H1, H2}
Ports == {80, 8080}

\* the address of the A record a host has in the additional section
AddrOf(h) == IF h = H1 THEN "10.0.0.1" ELSE "10.0.0.2"

\* the answer sections of an SRV response: target -> port
AnswerSets == UNION {[T -> Ports] : T \in SUBSET Hosts}

EmptyAnswer == [t \in {} |-> 0]

\* labels separated by "."; a text is the sequence of its pieces
RECURSIVE Dotted(_)
Dotted(labels) ==
    IF Len(labels) = 0 THEN <<>>
    ELSE IF Len(labels) = 1 THEN <<labels[1]>>
    ELSE <<labels[1], ".">> \o Dotted(Tail(labels))

IsPiece(t) == t # ""

\* rec.name.to_text() of an absolute dnspython Name
ToText(name) ==
    IF name = <<"">> THEN <<".">>
    ELSE SelectSeq(Dotted(SubSeq(name, 1, Len(name) - 1)), IsPiece) \o <<".">>

\* '.'.join(rec.target.labels)
JoinLabels(name) == SelectSeq(Dotted(name), IsPiece)

\* "http://{ip}:{port}".format(ip=..., port=...)
Endpoint(ip, port) == <<"http://", ip, ":", port>>

NoEndpoints == [none |-> TRUE, list |-> <<>>]

NoCall == [result |-> "none", failed |-> FALSE, additional |-> {}, answer |-> EmptyAnswer]

\* lines 52-66 for one DNS response: failed means resolver.query raised;
\* additional is the set of hosts with an A record, answer maps the SRV
\* targets to their ports. The KeyErrors are those of endpoints[name]['port']
\* (line 60) and of v['port'] (line 64).
ResolveCode(failed, additional, answer) ==
    LET keys     == {ToText(h) : h \in additional}
        targets  == {JoinLabels(t) : t \in DOMAIN answer}
        noanswer == DOMAIN answer = {}
        keyerror == (\E k \in targets : k \notin keys) \/ (\E k \in keys : k \notin targets)
    IN  [raised |-> failed \/ noanswer \/ keyerror,
         endpoints |-> UNION {{Endpoint(AddrOf(h), answer[t]) :
                                  t \in {u \in DOMAIN answer : JoinLabels(u) = ToText(h)}} :
                              h \in additional}]

\* mutation: the new endpoints are appended to the stored list
StoreEndpoints_Extend(old, list) == [none |-> FALSE, list |-> old.list \o list]

\* lines 62-66: self.endpoints = [...]
StoreEndpoints(old, list) == [none |-> FALSE, list |-> list]

\* one call of ConsulService.resolve() answered by one DNS response
Resolve ==
    /\ cs_calls < MaxResolves
    /\ cs_calls' = cs_calls + 1
    /\ cs_before' = cs_endpoints
    /\ \E failed \in BOOLEAN, additional \in SUBSET Hosts, answer \in AnswerSets :
         /\ failed => additional = {} /\ answer = EmptyAnswer
         /\ LET res == ResolveCode(failed, additional, answer)
            IN  /\ IF res.raised
                   THEN cs_endpoints' = cs_endpoints
                   ELSE \E list \in Perms(res.endpoints) :
                           cs_endpoints' = StoreEndpoints(cs_endpoints, list)
                /\ cs_last' = [result |-> IF res.raised THEN "raised" ELSE "ok", failed |-> failed,
                               additional |-> additional, answer |-> answer]
    /\ UNCHANGED <<dvars, rvars>>

\* ---------------------------------------------------------------- discover
MaxRuns == 2

NoOrders == [u \in {} |-> <<>>]

\* the orders in which the entries of a service can be iterated: any order
\* the first time, the same order when the same response or module is
\* iterated again
Orders(uri, S) == IF uri \in DOMAIN iter THEN {iter[uri]} ELSE Perms(S)

Remember(uri, p) == [u \in DOMAIN iter \cup {uri} |-> IF u = uri THEN p ELSE iter[u]]

Init ==
    /\ services \in {S \in SUBSET {b.uri : b \in Catalog} : Cardinality(S) <= MaxBackends}
    /\ config \in GatewayConfigs
    /\ url_map = <<>>
    /\ view_functions = EmptyViews
    /\ log = <<>>
    /\ pc = "init"
    /\ order = <<>>
    /\ idx = 0
    /\ todo = <<>>
    /\ mi = 1
    /\ outcome = <<>>
    /\ pre = Snapshot(<<>>, EmptyViews, config)
    /\ nextid = 1
    /\ requests = <<>>
    /\ iter = NoOrders
    /\ runs = 0
    /\ first = [url_map |-> <<>>, view_functions |-> EmptyViews]
    /\ cs_endpoints = NoEndpoints
    /\ cs_calls = 0
    /\ cs_last = NoCall
    /\ cs_before = NoEndpoints

\* lines 217-220: discover reads WEBSERVICES and starts iterating the dict
Start ==
    /\ pc = "init"
    /\ order' \in Perms(services)
    /\ pc' = "next"
    /\ runs' = runs + 1
    /\ UNCHANGED <<services, config, url_map, view_functions, log, idx, todo, mi, outcome, pre, nextid>>
    /\ UNCHANGED <<requests, iter, first, cvars>>

\* the bootstrap of the current service returned or raised: back to the for loop.
\* result "raised" is the except clause of lines 229-236.
Leave(result, um, vf, lg) ==
    /\ pc' = "next"
    /\ todo' = <<>>
    /\ mi' = 1
    /\ outcome' = Append(outcome, result)
    /\ url_map' = um
    /\ view_functions' = vf
    /\ log' = IF result = "raised"
              THEN Append(lg, LogEntry("error", order[Len(outcome) + 1], "Problem discovering", ""))
              ELSE lg

\* lines 226, 138-150 and the r.json() of line 158
BootstrapRemoteService ==
    /\ pc = "next"
    /\ idx < Len(order)
    /\ IsRemote(order[idx + 1])
    /\ LET uri == order[idx + 1]
           lg  == Append(log, LogEntry("debug", uri, "Attempting bootstrap_remote_service", ""))
       IN  /\ idx' = idx + 1
           /\ pre' = Snapshot(url_map, view_functions, config)
           /\ requests' = Append(requests, [service |-> uri, url |-> Urljoin(uri)])
           /\ UNCHANGED <<rvars, cvars>>
           /\ CASE GetOutcome(uri) = "neterr" ->
                     /\ Leave("skipped", url_map, view_functions,
                              Append(lg, LogEntry("info", uri, "Could not discover", "")))
                     /\ UNCHANGED <<services, config, order, nextid, iter>>
                [] GetOutcome(uri) = "raise" ->
                     /\ Leave("raised", url_map, view_functions, lg)
                     /\ UNCHANGED <<services, config, order, nextid, iter>>
                [] OTHER ->
                     \E p \in Orders(uri, Backend(uri).manifest) :
                        /\ iter' = Remember(uri, p)
                        /\ IF p = <<>>
                           THEN /\ Leave("ok", url_map, view_functions, lg)
                                /\ UNCHANGED <<services, config, order, nextid>>
                           ELSE /\ pc' = "remote"
                                /\ todo' = p
                                /\ mi' = 1
                                /\ log' = lg
                                /\ UNCHANGED <<services, config, url_map, view_functions, order, outcome, nextid>>

\* after method mi of Head(todo): the next method, the next entry, or return
RemoteAdvance(um, vf, lg) ==
    IF mi < Len(Head(todo).methods)
    THEN /\ mi' = mi + 1
         /\ url_map' = um
         /\ view_functions' = vf
         /\ log' = lg
         /\ UNCHANGED <<pc, todo, outcome>>
    ELSE IF Tail(todo) # <<>>
    THEN /\ mi' = 1
         /\ todo' = Tail(todo)
         /\ url_map' = um
         /\ view_functions' = vf
         /\ log' = lg
         /\ UNCHANGED <<pc, outcome>>
    ELSE Leave("ok", um, vf, lg)

\* lines 158-203: one iteration of the method loop of the current manifest
\* entry (entering the entry when mi = 1)
RemoteMethod ==
    /\ pc = "remote"
    /\ LET uri   == order[idx]
           e     == Head(todo)
           route == RemoteRoute(Backend(uri).deploy_path, e.path)
       IN  IF "methods" \notin e.has
           THEN \* properties['methods'] raises KeyError
                /\ Leave("raised", url_map, view_functions, log)
                /\ UNCHANGED nextid
           ELSE IF e.methods = <<>>
           THEN /\ RemoteAdvance(url_map, view_functions, log)
                /\ UNCHANGED nextid
           ELSE IF e.methods[mi] \notin ProxyViewMethods
           THEN /\ RemoteAdvance(url_map, view_functions, Warning(log, uri, e.methods[mi]))
                /\ UNCHANGED nextid
           ELSE LET view == RemoteView(uri, e, config, nextid)
                    reg  == RegisterRemote(url_map, view_functions, route, view, e.methods[mi], uri)
                IN  /\ nextid' = nextid + 1
                    /\ IF reg.raised
                       THEN Leave("raised", reg.url_map, reg.view_functions, log)
                       ELSE RemoteAdvance(reg.url_map, reg.view_functions, log)
    /\ UNCHANGED <<services, config, order, idx, pre>>
    /\ UNCHANGED <<requests, iter, rvars, cvars>>

\* lines 228, 78-89: import the module, create its app, merge its config
BootstrapLocalModule ==
    /\ pc = "next"
    /\ idx < Len(order)
    /\ ~IsRemote(order[idx + 1])
    /\ LET uri == order[idx + 1]
           lg  == Append(log, LogEntry("debug", uri, "Attempting bootstrap_local_module", ""))
       IN  /\ idx' = idx + 1
           /\ pre' = Snapshot(url_map, view_functions, config)
           /\ UNCHANGED <<requests, rvars, cvars>>
           /\ IF ~Backend(uri).importok
              THEN /\ Leave("raised", url_map, view_functions, lg)
                   /\ UNCHANGED <<services, config, order, nextid, iter>>
              ELSE /\ config' = MergeConfig(config, Backend(uri).lconfig)
                   /\ \E p \in Orders(uri, Backend(uri).rules) :
                        /\ iter' = Remember(uri, p)
                        /\ IF p = <<>>
                           THEN /\ Leave("ok", url_map, view_functions, lg)
                                /\ UNCHANGED <<services, order, nextid>>
                           ELSE /\ pc' = "local"
                                /\ todo' = p
                                /\ mi' = 1
                                /\ log' = lg
                                /\ UNCHANGED <<services, url_map, view_functions, order, outcome, nextid>>

\* lines 91-125: one iteration of the rule loop of the local app
LocalRule ==
    /\ pc = "local"
    /\ LET uri   == order[idx]
           r     == Head(todo)
           route == LocalRoute(Backend(uri).deploy_path, r.rule)
           view  == LocalView(uri, r, config, nextid)
           reg   == AddUrlRule(url_map, view_functions, route, view, LocalMethods(r), uri)
       IN  /\ nextid' = IF view.id = 0 THEN nextid ELSE nextid + 1
           /\ IF reg.raised
              THEN Leave("raised", reg.url_map, reg.view_functions, log)
              ELSE IF Tail(todo) # <<>>
              THEN /\ todo' = Tail(todo)
                   /\ url_map' = reg.url_map
                   /\ view_functions' = reg.view_functions
                   /\ UNCHANGED <<pc, mi, log, outcome>>
              ELSE Leave("ok", reg.url_map, reg.view_functions, log)
    /\ UNCHANGED <<services, config, order, idx, pre>>
    /\ UNCHANGED <<requests, iter, rvars, cvars>>

\* the for loop of line 220 is exhausted: discover returns
Finish ==
    /\ pc = "next"
    /\ idx = Len(order)
    /\ pc' = "done"
    /\ UNCHANGED <<services, config, url_map, view_functions, log, order, idx, todo, mi, outcome, pre, nextid>>
    /\ UNCHANGED <<requests, iter, rvars, cvars>>

Next ==
    \/ Start
    \/ BootstrapRemoteService
    \/ RemoteMethod
    \/ BootstrapLocalModule
    \/ LocalRule
    \/ Finish

Spec == Init /\ [][Next]_vars

\* discover(app) is called again on the same app, with the same
\* configuration: the same dict is iterated in the same order
Rediscover ==
    /\ pc = "done"
    /\ runs < MaxRuns
    /\ runs' = runs + 1
    /\ first' = IF runs = 1 THEN [url_map |-> url_map, view_functions |-> view_functions] ELSE first
    /\ pc' = "next"
    /\ idx' = 0
    /\ outcome' = <<>>
    /\ UNCHANGED <<services, config, url_map, view_functions, log, order, todo, mi, pre, nextid, requests, iter>>
    /\ UNCHANGED cvars

NextRerun == Next \/ Rediscover

SpecRerun == Init /\ [][NextRerun]_vars

\* a ConsulService object on its own: constructed for consul://c, then
\* resolved repeatedly; discover is not running
InitConsul ==
    /\ services = {<<"consul://", "c">>}
    /\ config = EmptyConfig
    /\ url_map = <<>>
    /\ view_functions = EmptyViews
    /\ log = <<>>
    /\ pc = "init"
    /\ order = <<>>
    /\ idx = 0
    /\ todo = <<>>
    /\ mi = 1
    /\ outcome = <<>>
    /\ pre = Snapshot(<<>>, EmptyViews, EmptyConfig)
    /\ nextid = 1
    /\ requests = <<>>
    /\ iter = NoOrders
    /\ runs = 0
    /\ first = [url_map |-> <<>>, view_functions |-> EmptyViews]
    /\ cs_endpoints = NoEndpoints
    /\ cs_calls = 0
    /\ cs_last = NoCall
    /\ cs_before = NoEndpoints

NextConsul == Resolve

SpecConsul == InitConsul /\ [][NextConsul]_vars

\* ---------------------------------------------------------------- vocabulary of the properties
Range(f) == {f[i] : i \in DOMAIN f}

\* the methods of a manifest entry that ProxyView supports
Supported(e) == IF "methods" \in e.has THEN Range(e.methods) \cap ProxyViewMethods ELSE {}

\* the <<route, method>> pairs a service asks the gateway to serve
ExpectedRoutes(uri) ==
    IF IsRemote(uri)
    THEN UNION {{RemoteRoute(Backend(uri).deploy_path, e.path)} \X Supported(e) : e \in Backend(uri).manifest}
    ELSE UNION {{LocalRoute(Backend(uri).deploy_path, r.rule)} \X LocalMethods(r) : r \in Backend(uri).rules}

\* the <<route, method>> pairs the url_map accepts
TablePairs(um) == UNION {{um[i].rule} \X um[i].methods : i \in DOMAIN um}

\* the methods explicitly registered for a Rule
Explicit(rule) == {p[1] : p \in rule.registered}

\* a service has left something in the url_map
Contributes(uri, um) ==
    \E i \in DOMAIN um : um[i].by = uri \/ \E p \in um[i].registered : p[2] = uri

Raised == {i \in DOMAIN outcome : outcome[i] = "raised"}

ErrorsAbout(uri) == {k \in DOMAIN log : log[k].level = "error" /\ log[k].service = uri}
InfosAbout(uri) == {k \in DOMAIN log : log[k].level = "info" /\ log[k].service = uri}

\* ---------------------------------------------------------------- C1
\* C1: when discover has returned and exactly one service's bootstrap raised,
\* the table accepts every route of the other services, the failed service
\* has left nothing in the table, and exactly one error entry names it.
C1_FailureIsolated ==
    (pc = "done" /\ Cardinality(Raised) = 1) =>
        \A f \in Raised :
            /\ \A j \in DOMAIN order : j # f => ExpectedRoutes(order[j]) \subseteq TablePairs(url_map)
            /\ ~Contributes(order[f], url_map)
            /\ Cardinality(ErrorsAbout(order[f])) = 1

\* ---------------------------------------------------------------- C2
\* C2: once a service has been processed, either it did not fail and all its
\* routes are in the table, or the url_map, the view functions and the
\* configuration are what they were before the service was started.
C2_NoPartialCommit ==
    (pc = "next" /\ idx > 0) =>
        IF outcome[idx] = "ok"
        THEN ExpectedRoutes(order[idx]) \subseteq TablePairs(url_map)
        ELSE /\ Snapshot(url_map, view_functions, config) = pre
             /\ ~Contributes(order[idx], url_map)

\* ---------------------------------------------------------------- C3
\* C3: in every state no two Rules of the url_map have the same path (hence
\* no two have the same path and method).
C3_OneRulePerPath ==
    \A i, j \in DOMAIN url_map : i # j => url_map[i].rule # url_map[j].rule

\* ---------------------------------------------------------------- C4
\* C4: no Rule of the url_map has OPTIONS among the methods the discoverer
\* registered explicitly for it (by add_url_rule or by extending the Rule).
C4_OptionsNeverRegistered ==
    \A i \in DOMAIN url_map : "OPTIONS" \notin Explicit(url_map[i])

\* a remote entry and a local rule that both list OPTIONS have been registered
C4_Witness ==
    /\ \E i \in DOMAIN url_map :
         /\ ~IsRemote(url_map[i].by)
         /\ \E r \in Backend(url_map[i].by).rules :
              /\ "OPTIONS" \in r.methods
              /\ LocalRoute(Backend(url_map[i].by).deploy_path, r.rule) = url_map[i].rule
    /\ \E i \in DOMAIN url_map :
         /\ IsRemote(url_map[i].by)
         /\ \E e \in Backend(url_map[i].by).manifest :
              /\ "OPTIONS" \in Range(e.methods)
              /\ RemoteRoute(Backend(url_map[i].by).deploy_path, e.path) = url_map[i].rule

\* ---------------------------------------------------------------- C5
\* the configured services that ask for a route
Sources(route) == {u \in services : \E p \in ExpectedRoutes(u) : p[1] = route}

\* the methods asked for a route by a set of services
MethodsFor(route, B) == {p[2] : p \in {q \in UNION {ExpectedRoutes(u) : u \in B} : q[1] = route}}

RemoteOK(uri) ==
    IsRemote(uri) /\ \E i \in DOMAIN outcome : order[i] = uri /\ outcome[i] = "ok"

\* C5: when discover has returned and a route is asked for by exactly two
\* services, both remote and both discovered, the url_map has exactly one Rule
\* for the route and the methods registered for it are the union of the
\* methods the two services support (Rule.methods adds only Flask's implicit
\* OPTIONS and HEAD), in whichever order the two were processed.
C5_MethodMerge ==
    pc = "done" =>
        \A route \in {p[1] : p \in UNION {ExpectedRoutes(u) : u \in services}} :
            (Cardinality(Sources(route)) = 2 /\ \A u \in Sources(route) : RemoteOK(u)) =>
                /\ Cardinality(RulesOf(url_map, route)) = 1
                /\ \A i \in RulesOf(url_map, route) :
                     /\ Explicit(url_map[i]) = MethodsFor(route, Sources(route))
                     /\ MethodsFor(route, Sources(route)) \subseteq url_map[i].methods
                     /\ url_map[i].methods \ MethodsFor(route, Sources(route)) \subseteq {"OPTIONS", "HEAD"}

\* the POST-only service was processed before the GET-only one and the route accepts both
C5_Witness ==
    /\ pc = "done"
    /\ order = << <<"https://", "p">>, <<"http://", "g">> >>
    /\ \E i \in DOMAIN url_map :
         /\ url_map[i].rule = <<"/", "s", "/", "x">>
         /\ {"GET", "POST"} \subseteq url_map[i].methods

\* ---------------------------------------------------------------- C6
\* a view enforces the scopes and the rate limit of a manifest entry
Enforces(v, e) ==
    /\ "ratelimit" \in Range(v.stages)
    /\ <<v.limit, v.per>> = (IF "rate_limit" \in e.has THEN e.rate_limit ELSE <<1000, 86400>>)
    /\ "oauth" \in Range(v.stages)
    /\ v.scopes = (IF "scopes" \in e.has THEN e.scopes ELSE {})

\* the entries of a service's manifest that join to a route
EntriesAt(uri, route) ==
    {e \in Backend(uri).manifest : RemoteRoute(Backend(uri).deploy_path, e.path) = route}

\* C6 as stated: for a single remote service discovered without error, every
\* manifest entry has exactly one Rule at its route, registered with exactly
\* the entry's supported methods and served by a view that enforces the
\* entry's scopes and rate limit.
C6_EachEntryOneRoute ==
    (pc = "done" /\ Cardinality(services) = 1) =>
        \A u \in services : RemoteOK(u) =>
            \A e \in Backend(u).manifest :
                LET route == RemoteRoute(Backend(u).deploy_path, e.path)
                IN  /\ Cardinality(RulesOf(url_map, route)) = 1
                    /\ \A i \in RulesOf(url_map, route) :
                         /\ Explicit(url_map[i]) = Supported(e)
                         /\ Enforces(view_functions[route], e)

\* C6 amended: for a single remote service discovered without error, the
\* entries that join to one route produce exactly one Rule when one of them
\* lists a supported method and none otherwise; the Rule is registered with
\* exactly the supported methods of those entries and served by one view,
\* which enforces the scopes and rate limit of one of those entries that has
\* a supported method.
C6_EntriesShareRoute ==
    (pc = "done" /\ Cardinality(services) = 1) =>
        \A u \in services : RemoteOK(u) =>
            \A e \in Backend(u).manifest :
                LET route == RemoteRoute(Backend(u).deploy_path, e.path)
                    same  == EntriesAt(u, route)
                IN  IF UNION {Supported(e2) : e2 \in same} = {}
                    THEN RulesOf(url_map, route) = {}
                    ELSE /\ Cardinality(RulesOf(url_map, route)) = 1
                         /\ \A i \in RulesOf(url_map, route) :
                              /\ Explicit(url_map[i]) = UNION {Supported(e2) : e2 \in same}
                              /\ \E e2 \in same : Supported(e2) # {} /\ Enforces(view_functions[route], e2)

\* the manifest {"/w": GET, POST; scopes read; 10 per 60} mounted at /s has been composed
C6_Witness ==
    /\ pc = "done"
    /\ services = {<<"http://", "w">>}
    /\ \E i \in DOMAIN url_map :
         /\ url_map[i].rule = <<"/", "s", "/", "w">>
         /\ Explicit(url_map[i]) = {"GET", "POST"}
         /\ view_functions[url_map[i].endpoint].scopes = {"read"}
         /\ view_functions[url_map[i].endpoint].limit = 10
         /\ view_functions[url_map[i].endpoint].per = 60

\* ---------------------------------------------------------------- C7
\* an endpoint is bound to a view by this step
NewlyBound(e) ==
    /\ e \in DOMAIN view_functions'
    /\ e \notin DOMAIN view_functions \/ view_functions[e] # view_functions'[e]

\* the rule of a local app a local view comes from
RuleOfView(v) == CHOOSE r \in Backend(v.uri).rules : r.endpoint = v.name

\* C7 as stated: every view bound to an endpoint has been wrapped by
\* ratelimit and by require_oauth, and by headers exactly when
\* API_PROXYVIEW_HEADERS is configured at that moment, whether it is a proxy
\* view or the view of a local module.
C7_FullPipeline ==
    [][\A e \in DOMAIN view_functions' : NewlyBound(e) =>
          LET v == view_functions'[e]
          IN  /\ "ratelimit" \in Range(v.stages)
              /\ "oauth" \in Range(v.stages)
              /\ "headers" \in Range(v.stages) <=> HeadersConfigured(config)]_vars

\* C7 amended: every proxy view bound to an endpoint has been wrapped by
\* ratelimit and require_oauth; a local view has been wrapped by ratelimit
\* exactly when it declares rate_limit and by require_oauth exactly when it
\* declares scopes; both kinds are wrapped by headers exactly when
\* API_PROXYVIEW_HEADERS is configured at that moment.
C7_PipelineAsDeclared ==
    [][\A e \in DOMAIN view_functions' : NewlyBound(e) =>
          LET v == view_functions'[e]
          IN  /\ v.kind = "proxy" =>
                    "ratelimit" \in Range(v.stages) /\ "oauth" \in Range(v.stages)
              /\ v.kind = "local" =>
                    /\ "ratelimit" \in Range(v.stages) <=> "rate_limit" \in RuleOfView(v).has
                    /\ "oauth" \in Range(v.stages) <=> "scopes" \in RuleOfView(v).has
              /\ "headers" \in Range(v.stages) <=> HeadersConfigured(config)]_vars

\* a proxy view, a decorated local view and an undecorated local view are all bound
C7_Witness ==
    /\ \E e \in DOMAIN view_functions : view_functions[e].kind = "proxy"
    /\ \E e \in DOMAIN view_functions :
         view_functions[e].kind = "local" /\ view_functions[e].stages = <<>>
    /\ \E e \in DOMAIN view_functions :
         view_functions[e].kind = "local" /\ view_functions[e].stages # <<>>

\* ---------------------------------------------------------------- C8
DefaultLimited(v) ==
    "ratelimit" \in Range(v.stages) /\ v.limit = 1000 /\ v.per = 86400

\* C8 as stated: when discover has returned, the route of every resource of a
\* discovered service that declares no rate limit (a manifest entry without
\* rate_limit, a local view without the attribute) is served by a view
\* limited to 1000 calls per 86400 seconds.
C8_DefaultRateLimit ==
    pc = "done" =>
        \A i \in DOMAIN order : outcome[i] = "ok" =>
            LET u == order[i]
            IN  IF IsRemote(u)
                THEN \A e \in Backend(u).manifest :
                        ("rate_limit" \notin e.has /\ Supported(e) # {}) =>
                            DefaultLimited(view_functions[RemoteRoute(Backend(u).deploy_path, e.path)])
                ELSE \A r \in Backend(u).rules :
                        "rate_limit" \notin r.has =>
                            DefaultLimited(view_functions[LocalRoute(Backend(u).deploy_path, r.rule)])

\* C8 amended: a bound proxy view built from manifest entries without
\* rate_limit is limited to 1000 calls per 86400 seconds; a bound local view
\* without the rate_limit attribute has no rate-limit stage at all.
C8_DefaultForRemoteOnly ==
    \A ep \in DOMAIN view_functions :
        LET v == view_functions[ep]
        IN  IF v.kind = "proxy"
            THEN (\A e \in EntriesAt(v.uri, ep) : Supported(e) # {} => "rate_limit" \notin e.has)
                    => DefaultLimited(v)
            ELSE "rate_limit" \notin RuleOfView(v).has => "ratelimit" \notin Range(v.stages)

\* a manifest entry without rate_limit and a local view without the attribute are both served
C8_Witness ==
    /\ pc = "done"
    /\ <<"/", "s", "/", "x">> \in DOMAIN view_functions
    /\ view_functions[<<"/", "s", "/", "x">>].uri = <<"http://", "g">>
    /\ <<"/", "t", "/", "y">> \in DOMAIN view_functions
    /\ view_functions[<<"/", "t", "/", "y">>].uri = <<"", "mod.ok">>

\* ---------------------------------------------------------------- C9
\* C9: no step of discover removes a key of the gateway configuration or
\* changes the value of a key it already has; keys are only added.
C9_GatewayKeysWin ==
    [][\A k \in DOMAIN config : k \in DOMAIN config' /\ config'[k] = config[k]]_vars

\* a local module that also sets K1 has been merged: K2 was added, K1 kept
C9_Witness ==
    /\ "K1" \in DOMAIN config
    /\ config["K1"] = "gateway"
    /\ "K2" \in DOMAIN config
    /\ config["K2"] = "ok2"

\* ---------------------------------------------------------------- C10
\* the manifest GET of a service fails with ConnectionError or Timeout
Unreachable(uri) == uri[1] \in {"http://", "https://"} /\ Backend(uri).resp = "neterr"

\* C10: a service whose manifest GET fails with a connection error or timeout
\* is skipped: one info entry 'Could not discover' and no error entry are
\* logged for it, it leaves nothing in the url_map, the url_map, the views
\* and the configuration are what they were before it, and discover goes on
\* until every configured service has been processed.
C10_NetworkErrorSkipped ==
    /\ \A i \in DOMAIN outcome : Unreachable(order[i]) =>
          /\ outcome[i] = "skipped"
          /\ Cardinality(InfosAbout(order[i])) = 1
          /\ \A k \in InfosAbout(order[i]) : log[k].text = "Could not discover"
          /\ ErrorsAbout(order[i]) = {}
          /\ ~Contributes(order[i], url_map)
    /\ (pc = "next" /\ idx > 0 /\ Unreachable(order[idx])) =>
          Snapshot(url_map, view_functions, config) = pre
    /\ pc = "done" => Len(outcome) = Len(order)

\* an unreachable service was processed first and the next one was still discovered
C10_Witness ==
    /\ pc = "done"
    /\ Len(order) = 2
    /\ Unreachable(order[1])
    /\ outcome = <<"skipped", "ok">>
    /\ url_map # <<>>

\* ---------------------------------------------------------------- C11
\* the endpoints of the targets that have both an SRV record and an A record
Joined(additional, answer) ==
    {Endpoint(AddrOf(t), answer[t]) : t \in additional \cap DOMAIN answer}

\* C11: after a call of resolve whose DNS query returned SRV records, the
\* call has succeeded and the stored list holds exactly one endpoint for
\* every target that is in both the answer and the additional section, and
\* nothing else, whatever targets are missing from one of the two.
C11_JoinByTarget ==
    (cs_last.result # "none" /\ ~cs_last.failed /\ DOMAIN cs_last.answer # {}) =>
        /\ cs_last.result = "ok"
        /\ ~cs_endpoints.none
        /\ Range(cs_endpoints.list) = Joined(cs_last.additional, cs_last.answer)
        /\ Len(cs_endpoints.list) = Cardinality(Joined(cs_last.additional, cs_last.answer))

\* ---------------------------------------------------------------- C12
\* C12: every manifest GET issued for a consul:// service is issued after
\* ConsulService.resolve has been called and has stored endpoints, and its
\* URL is an http:// endpoint, not the consul:// URI or a URL without scheme.
C12_ResolvedBeforeGet ==
    \A k \in DOMAIN requests :
        requests[k].service[1] = "consul://" =>
            /\ cs_calls > 0
            /\ ~cs_endpoints.none
            /\ requests[k].url[1] = "http://"

\* ---------------------------------------------------------------- C13
\* C13: during and after a second call of discover on the same app, with
\* the same configuration and the same answers of the services, the url_map
\* and the view functions are what the first call left: no Rule is added,
\* no method set and no handler changes.
C13_RerunChangesNothing ==
    runs = 2 =>
        /\ url_map = first.url_map
        /\ view_functions = first.view_functions

\* ---------------------------------------------------------------- C14
\* bootstrap_remote_service is about to register a supported method for a
\* route that already has a Rule
MergeStep ==
    /\ pc = "remote"
    /\ "methods" \in Head(todo).has
    /\ Head(todo).methods # <<>>
    /\ Head(todo).methods[mi] \in {"GET", "POST", "PUT", "DELETE"}
    /\ \E i \in DOMAIN url_map :
         url_map[i].endpoint = RemoteRoute(Backend(order[idx]).deploy_path, Head(todo).path)

\* C14: a step of bootstrap_remote_service that registers a method for a
\* route that already exists changes nothing but the method set of that
\* route's first Rule, which gains the method: the view functions are
\* unchanged, no Rule is added, and the view built in this step is bound to
\* no endpoint.
C14_MergeKeepsHandler ==
    [][MergeStep =>
          LET route == RemoteRoute(Backend(order[idx]).deploy_path, Head(todo).path)
              f     == CHOOSE i \in DOMAIN url_map :
                          /\ url_map[i].endpoint = route
                          /\ \A j \in DOMAIN url_map : url_map[j].endpoint = route => i <= j
          IN  /\ view_functions' = view_functions
              /\ Len(url_map') = Len(url_map)
              /\ \A i \in DOMAIN url_map : i # f => url_map'[i] = url_map[i]
              /\ url_map'[f].rule = url_map[f].rule
              /\ url_map'[f].endpoint = url_map[f].endpoint
              /\ url_map'[f].methods = url_map[f].methods \cup {Head(todo).methods[mi]}
              /\ \A e \in DOMAIN view_functions' : view_functions'[e].id # nextid]_vars

\* a route created by one service has been extended with a method by another
\* service and is still served by the creator's view
C14_Witness ==
    \E i \in DOMAIN url_map :
        /\ url_map[i].endpoint \in DOMAIN view_functions
        /\ view_functions[url_map[i].endpoint].uri = url_map[i].by
        /\ \E p \in url_map[i].registered :
             /\ p[2] # url_map[i].by
             /\ p[1] \in url_map[i].methods

\* ---------------------------------------------------------------- C15
ScopeNames == {"read", "write", "user"}

\* the positions of a stage in a sequence of stages
Pos(seq, stage) == {i \in DOMAIN seq : seq[i] = stage}

\* C15: the stages of every bound view, local or proxy, are in the order
\* ratelimit, require_oauth, headers (innermost first, absent stages left
\* out); hence for every request the scope check comes before the rate-limit
\* check, and a request the scope check rejects reaches neither the
\* rate-limit check nor the undecorated handler.
C15_StageOrder ==
    \A e \in DOMAIN view_functions :
        LET v == view_functions[e]
        IN  /\ \A i \in Pos(v.stages, "ratelimit"), j \in Pos(v.stages, "oauth") : i < j
            /\ \A i \in Pos(v.stages, "oauth"), j \in Pos(v.stages, "headers") : i < j
            /\ \A i \in Pos(v.stages, "ratelimit"), j \in Pos(v.stages, "headers") : i < j
            /\ \A granted \in SUBSET ScopeNames :
                 /\ \A i \in Pos(Reached(v, granted), "oauth"),
                       j \in Pos(Reached(v, granted), "ratelimit") : i < j
                 /\ ("oauth" \in Range(v.stages) /\ ~(v.scopes \subseteq granted)) =>
                       /\ Pos(Reached(v, granted), "ratelimit") = {}
                       /\ Pos(Reached(v, granted), "handler") = {}

\* a local view and a proxy view that went through all three stages are bound
C15_Witness ==
    /\ \E e \in DOMAIN view_functions :
         /\ view_functions[e].kind = "local"
         /\ view_functions[e].stages = <<"ratelimit", "oauth", "headers">>
         /\ view_functions[e].scopes # {}
    /\ \E e \in DOMAIN view_functions :
         /\ view_functions[e].kind = "proxy"
         /\ view_functions[e].stages = <<"ratelimit", "oauth", "headers">>
         /\ view_functions[e].scopes # {}

\* ---------------------------------------------------------------- C16
\* the current iteration of the method loop is about a method ProxyView lacks
AtUnsupported ==
    /\ pc = "remote"
    /\ "methods" \in Head(todo).has
    /\ Head(todo).methods # <<>>
    /\ Head(todo).methods[mi] \notin {"GET", "POST", "PUT", "DELETE"}

WarningsAbout(uri, m) ==
    {k \in DOMAIN log : log[k].level = "warning" /\ log[k].service = uri /\ log[k].method = m}

\* one iteration about an unsupported method: a warning naming the method and
\* the service is logged, the table is left alone, nothing is raised and the
\* loop goes on with the next method or the next entry
SkipStep ==
    AtUnsupported =>
        /\ Len(log') = Len(log) + 1
        /\ SubSeq(log', 1, Len(log)) = log
        /\ log'[Len(log')].level = "warning"
        /\ log'[Len(log')].service = order[idx]
        /\ log'[Len(log')].method = Head(todo).methods[mi]
        /\ url_map' = url_map
        /\ view_functions' = view_functions
        /\ outcome' \in {outcome, Append(outcome, "ok")}
        /\ mi < Len(Head(todo).methods) => (mi' = mi + 1 /\ todo' = todo /\ pc' = "remote")
        /\ (mi = Len(Head(todo).methods) /\ Tail(todo) # <<>>) =>
               (mi' = 1 /\ todo' = Tail(todo) /\ pc' = "remote")

\* a remote service whose bootstrap returned: each unsupported method of
\* each of its entries has a warning and no registration, and each supported
\* method of each of its entries is accepted at the entry's route
SkippedAlone ==
    \A j \in DOMAIN outcome :
        (IsRemote(order[j]) /\ outcome[j] = "ok") =>
            \A e \in Backend(order[j]).manifest : \A k \in DOMAIN e.methods :
                IF e.methods[k] \in {"GET", "POST", "PUT", "DELETE"}
                THEN <<RemoteRoute(Backend(order[j]).deploy_path, e.path), e.methods[k]>> \in TablePairs(url_map)
                ELSE /\ WarningsAbout(order[j], e.methods[k]) # {}
                     /\ \A i \in DOMAIN url_map : <<e.methods[k], order[j]>> \notin url_map[i].registered

\* C16: a method of a remote entry that ProxyView does not support is skipped
\* alone: a warning naming the method and the service is logged, nothing is
\* registered for it, and the other methods of the entry and the other
\* entries of the service are registered all the same.
C16_UnsupportedSkippedAlone == []SkippedAlone /\ [][SkipStep]_vars

\* a service one of whose entries has a supported method after an unsupported
\* one, and another entry besides, has been bootstrapped; the warning is
\* logged and the later method and the other entry are in the table
C16_Witness ==
    \E j \in DOMAIN outcome :
        /\ IsRemote(order[j]) /\ outcome[j] = "ok"
        /\ \E e, f \in Backend(order[j]).manifest :
             /\ e # f
             /\ \E a, b \in DOMAIN e.methods :
                  /\ a < b
                  /\ e.methods[a] \notin ProxyViewMethods
                  /\ e.methods[b] \in ProxyViewMethods
                  /\ WarningsAbout(order[j], e.methods[a]) # {}
                  /\ <<RemoteRoute(Backend(order[j]).deploy_path, e.path), e.methods[b]>> \in TablePairs(url_map)
             /\ Supported(f) # {}
             /\ \A m \in Supported(f) :
                  <<RemoteRoute(Backend(order[j]).deploy_path, f.path), m>> \in TablePairs(url_map)

\* ---------------------------------------------------------------- C17
\* the endpoints of the latest call of resolve: those of its joined targets
\* when it returned, none when it raised
LatestEndpoints ==
    IF cs_last.result = "ok" THEN Joined(cs_last.additional, cs_last.answer) ELSE {}

\* C17 as stated: after any call of resolve, also one that failed, the stored
\* list holds exactly the endpoints of the latest resolution.
C17_LatestOnly ==
    cs_calls > 0 => Range(cs_endpoints.list) = LatestEndpoints

\* C17: a call of resolve that returns replaces the stored list by exactly
\* the endpoints of that resolution, each once, so that no endpoint of an
\* earlier resolution absent from this one remains; a call that raises
\* leaves the stored endpoints as they were before the call.
C17_ReplacedOnSuccess ==
    cs_calls > 0 =>
        IF cs_last.result = "ok"
        THEN /\ ~cs_endpoints.none
             /\ Range(cs_endpoints.list) = Joined(cs_last.additional, cs_last.answer)
             /\ Len(cs_endpoints.list) = Cardinality(Joined(cs_last.additional, cs_last.answer))
        ELSE cs_endpoints = cs_before

\* a second resolution has returned and an endpoint stored by the first one,
\* absent from the second, is gone
C17_Witness ==
    /\ cs_calls = 2
    /\ cs_last.result = "ok"
    /\ cs_before.list # <<>>
    /\ cs_endpoints.list # <<>>
    /\ \E x \in Range(cs_before.list) : x \notin Range(cs_endpoints.list)

\* ---------------------------------------------------------------- C18
\* one step leaves every Rule in place with its path, its endpoint and at
\* least its methods, and every bound endpoint with the function it had
GrowsOnly ==
    /\ Len(url_map') >= Len(url_map)
    /\ \A i \in DOMAIN url_map :
         /\ url_map'[i].rule = url_map[i].rule
         /\ url_map'[i].endpoint = url_map[i].endpoint
         /\ url_map[i].methods \subseteq url_map'[i].methods
    /\ TablePairs(url_map) \subseteq TablePairs(url_map')
    /\ \A e \in DOMAIN view_functions :
         /\ e \in DOMAIN view_functions'
         /\ view_functions'[e] = view_functions[e]

\* C18: across every step of discover, also of a repeated discover, the set
\* of <<path, method>> pairs the url_map accepts only grows, no Rule and no
\* method is removed, and no endpoint's function is replaced.
C18_AppendMergeOnly == [][GrowsOnly]_vars

\* a Rule has been extended with a second method, and a second Rule has been
\* added for an endpoint that was already bound and has kept its function
C18_Witness ==
    /\ \E k \in DOMAIN url_map :
         /\ IsRemote(url_map[k].by)
         /\ Cardinality(Explicit(url_map[k])) >= 2
    /\ \E i, j \in DOMAIN url_map :
         /\ i < j
         /\ url_map[i].endpoint = url_map[j].endpoint
         /\ url_map[i].endpoint \in DOMAIN view_functions
         /\ url_map[i].endpoint \in DOMAIN first.view_functions
         /\ view_functions[url_map[i].endpoint] = first.view_functions[url_map[i].endpoint]

\* ---------------------------------------------------------------- C19
\* path p is absolute and lies under mount path m
Under(p, m) ==
    /\ Len(p) > Len(m)
    /\ SubSeq(p, 1, Len(m)) = m
    /\ p[Len(m) + 1] = "/"

\* C19: the path of every Rule is an absolute path under the mount path of
\* the service that registered it, whatever the number of slashes the
\* manifest key or the rule of the module begins with.
C19_UnderMountPath ==
    \A i \in DOMAIN url_map : Under(url_map[i].rule, Backend(url_map[i].by).deploy_path)

\* ---------------------------------------------------------------- C20
\* the order in which the configuration declares the services: WEBSERVICES
\* is a dict literal, whose textual order is one fixed order of its keys
Declared == CHOOSE p \in Perms(services) : TRUE

\* the positions of order whose service has added Rule i
AddedAt(i) == {j \in DOMAIN order : order[j] = url_map[i].by}

\* C20: discover handles every configured service exactly once, one at a
\* time (the Rules of one service are added before those of the next
\* service), in the order in which the configuration declares the services,
\* and then returns.
C20_DeclarationOrder ==
    pc # "init" =>
        /\ order = Declared
        /\ Range(order) = services /\ Len(order) = Cardinality(services)
        /\ Len(outcome) <= idx /\ idx <= Len(order)
        /\ \A i, k \in DOMAIN url_map :
             i < k => \A a \in AddedAt(i), b \in AddedAt(k) : a <= b /\ b <= idx
        /\ pc = "done" => Len(outcome) = Len(order)

====
